---- MODULE Spec2Model ----
(***************************************************************************)
(* Model of src/src/broker.rs: the command loop of start_broker, the       *)
(* notification relay task it spawns, and the closures both hand to the    *)
(* druid event sink.  The core (CoreTaskHandle), the AppState type and the *)
(* delegate live outside src/ and are modelled from the specification.     *)
(***************************************************************************)
EXTENDS Integers, Sequences, FiniteSets, TLC

\* ------------------------------------------------------------------ bounds
\* commands the producers submit during one run, all together
MaxSend == 2
\* messages the core stores during one run
MaxMsgs == 2

\* the notifications the core retains for a receiver that has not kept up
NotiCap == 1

\* ------------------------------------------------------------ input domains
Producers == {"ui", "delegate"}
Urls == {"wss://r1", "wss://r2"}
Peers == {"A", "B"}
SecretKeys == {"sk1", "sk2"}
Aliases == {"bob"}
Contents == {"hi"}
\* Contact { alias, pk }: the pk is a key, printed by to_string() in the projection
ContactKeys == {"key:B"}
Contact == [alias : Aliases, pk : ContactKeys]
NoContact == [alias |-> "", pk |-> ""]
\* the relay list the core has loaded from its configuration at start
InitRelays == <<"wss://r1">>

NoArg == ""
NoTag == <<"", 0>>
NoCmd == [type |-> "NoCmd", arg |-> NoArg, contact |-> NoContact, content |-> NoArg]
NoEvent == [tag |-> NoTag, cmd |-> NoCmd]

\* enum BrokerEvent: every variant with its payload
BrokerEvent ==
    [type : {"AddRelay", "RemoveRelay", "ConnectRelay", "DisconnectRelay"},
     arg : Urls, contact : {NoContact}, content : {NoArg}]
      \cup [type : {"AddContact", "RemoveContact"},
            arg : {NoArg}, contact : Contact, content : {NoArg}]
      \cup [type : {"SubscribeInRelays", "SetConversation"},
            arg : Peers, contact : {NoContact}, content : {NoArg}]
      \cup [type : {"RestoreKeyPair"}, arg : SecretKeys, contact : {NoContact}, content : {NoArg}]
      \cup [type : {"GenerateNewKeyPair", "LoadConfigs"},
            arg : {NoArg}, contact : {NoContact}, content : {NoArg}]
      \cup [type : {"SendMessage"}, arg : Peers, contact : {NoContact}, content : Contents]

VARIABLES
    broker_receiver,   \* the command channel: [tag, cmd] sent and not yet received
    senders,           \* the producers that still hold a sender of the command channel
    pc,                \* position of start_broker
    cur,               \* broker_event being processed with its tag, or NoEvent
    core,              \* state owned by CoreTaskHandle
    rec_convs_noti,    \* notifications emitted and not yet received by the relay
    rec_status,        \* the relay's receiver: has it lagged, is the sequence closed
    relay,             \* state of the spawned relay task
    event_sink,        \* submissions not yet applied, one FIFO per submitting task
    data,              \* AppState held by the presentation layer
    sent,              \* history: number of commands each producer has submitted
    applied,           \* history: tags of the commands the loop has received, in order
    inflight,          \* history: tags of commands received and not yet completed
    trace,             \* history: core calls and submissions made for the current command
    last,              \* history: the command completed last, with its result
    handled            \* history: ids of the messages whose closure ran, by outcome

vars == <<broker_receiver, senders, pc, cur, core, rec_convs_noti, rec_status,
          relay, event_sink, data, sent, applied, inflight, trace, last, handled>>

Range(s) == {s[i] : i \in 1..Len(s)}
Count(s, x) == Cardinality({i \in 1..Len(s) : s[i] = x})
RECURSIVE Without(_, _)
Without(s, x) ==
    IF s = <<>> THEN <<>>
    ELSE IF Head(s) = x THEN Without(Tail(s), x)
    ELSE <<Head(s)>> \o Without(Tail(s), x)

\* ------------------------------------------------- the core (CoreTaskHandle)
\* A stored secret key and the key pair derived from it.
NoUser == [sk |-> "", pk |-> ""]
PkOf(sk) == IF sk = "sk1" THEN "pk1" ELSE "pk2"
NoConvs == [p \in Peers |-> <<>>]
AllMsgs(c) == UNION {Range(c.convs[p]) : p \in Peers}

\* add_relay(url) -> Result: on Ok the url is in the relay list, once; on Err
\* the configuration is as before.
CoreAddRelay(c, url, ok) ==
    IF ok /\ url \notin Range(c.relays_url)
    THEN [c EXCEPT !.relays_url = Append(@, url)]
    ELSE c
\* remove_relay(url) -> Result: on Ok the url is no longer in the relay list.
CoreRemoveRelay(c, url, ok) ==
    IF ok THEN [c EXCEPT !.relays_url = Without(@, url)] ELSE c
\* add_contact(contact) -> Result
CoreAddContact(c, contact, ok) ==
    IF ok /\ contact \notin Range(c.contacts)
    THEN [c EXCEPT !.contacts = Append(@, contact)]
    ELSE c
\* remove_contact(contact) -> Result
CoreRemoveContact(c, contact, ok) ==
    IF ok THEN [c EXCEPT !.contacts = Without(@, contact)] ELSE c
\* connect_relay(url) / disconnect_relay(url)
CoreConnectRelay(c, url) ==
    IF url \in Range(c.relays_url) THEN [c EXCEPT !.connected = @ \cup {url}] ELSE c
CoreDisconnectRelay(c, url) == [c EXCEPT !.connected = @ \ {url}]
\* import_user_sk(sk), gen_new_user_keypair(), subscribe()
CoreImportUserSk(c, sk) == [c EXCEPT !.user = [sk |-> sk, pk |-> PkOf(sk)]]
CoreGenNewUserKeypair(c, sk) == [c EXCEPT !.user = [sk |-> sk, pk |-> PkOf(sk)]]
CoreSubscribe(c) == [c EXCEPT !.subscription = c.user.pk]
\* get_config() -> (relay urls, contacts); get_user(); get_conv(pk) -> Option
CoreGetConfig(c) == <<c.relays_url, c.contacts>>
CoreGetUser(c) == c.user
CoreGetConv(c, pk) ==
    IF c.convs[pk] = <<>> THEN <<>> ELSE <<[pk |-> pk, messages |-> c.convs[pk]]>>
\* a message stored in the conversation of `peer`
NewMsg(c, peer, content) ==
    [id |-> Cardinality(AllMsgs(c)) + 1, peer |-> peer, content |-> content]
CoreStoreMessage(c, m) == [c EXCEPT !.convs[m.peer] = Append(@, m)]

\* ------------------------------------------------------- state projection
PkToString(k) == IF k = "key:B" THEN "B" ELSE k
ContactState_new(alias, pk) == [alias |-> alias, pk |-> pk]
ConfigState_new == [relays_url |-> <<>>, contacts |-> <<>>]
UserState_new(sk, pk) == [sk |-> sk, pk |-> pk]
MessageState_from_entity(m) == [source_id |-> m.id, content |-> m.content]
ConversationState_from_entity(conv) ==
    [pk |-> conv.pk,
     messages |-> [i \in 1..Len(conv.messages) |-> MessageState_from_entity(conv.messages[i])]]
\* contacts.iter().map(|c| ContactState::new(&c.alias, &c.pk.to_string())).collect()
ContactProjection(contacts) ==
    [i \in 1..Len(contacts) |->
        ContactState_new(contacts[i].alias, PkToString(contacts[i].pk))]

\* fn load_config
load_config(c) ==
    LET cfg == CoreGetConfig(c)
    IN  [ConfigState_new EXCEPT !.relays_url = cfg[1],
                                !.contacts = ContactProjection(cfg[2])]

\* faulty variant: the relay list is not copied into the new ConfigState
updated_config_state_no_relays(c) ==
    LET cfg == CoreGetConfig(c)
    IN  [ConfigState_new EXCEPT !.contacts = ContactProjection(cfg[2])]

\* the configuration update_config_state builds before it submits it
updated_config_state(c) ==
    LET cfg == CoreGetConfig(c)
    IN  [ConfigState_new EXCEPT !.relays_url = cfg[1],
                                !.contacts = ContactProjection(cfg[2])]

\* ---------------------------------- what is submitted to the event sink
ConfigUpdated(config) == [kind |-> "ConfigUpdated", val |-> config]
ConfigClosure(config) == [kind |-> "config", val |-> config]
UserClosure(user) == [kind |-> "user", val |-> user]
ConvClosure(conv) == [kind |-> "selected_conv", val |-> conv]
NewMessageClosure(new_msg) == [kind |-> "new_msg", val |-> new_msg]

\* the closures' bodies, run on the AppState
ApplyConfigUpdated(d, config) == [d EXCEPT !.config = config]
ApplyConfigClosure(d, config) == [d EXCEPT !.config = config]
ApplyUserClosure(d, user) == [d EXCEPT !.user = UserState_new(user.sk, user.pk)]
\* faulty variant: the messages of the previous selection are kept in front
ApplyConvClosureMerge(d, conv) ==
    LET new == ConversationState_from_entity(conv)
    IN  IF d.selected_conv = <<>> THEN [d EXCEPT !.selected_conv = <<new>>]
        ELSE [d EXCEPT !.selected_conv =
                 <<[new EXCEPT !.messages = d.selected_conv[1].messages \o @]>>]
ApplyConvClosure(d, conv) ==
    [d EXCEPT !.selected_conv = <<ConversationState_from_entity(conv)>>]
\* faulty variant: with no conversation selected, one is opened for the message
ApplyNewMessageClosureOpens(d, new_msg) ==
    LET base == IF d.selected_conv # <<>> THEN d.selected_conv[1]
                ELSE [pk |-> new_msg.peer, messages |-> <<>>]
        updated_conv ==
            [base EXCEPT !.messages = Append(@, MessageState_from_entity(new_msg))]
    IN  [d EXCEPT !.selected_conv = <<updated_conv>>]
\* faulty variant: push_front instead of push_back
ApplyNewMessageClosureFront(d, new_msg) ==
    IF d.selected_conv # <<>>
    THEN LET updated_conv ==
                 [d.selected_conv[1] EXCEPT
                     !.messages = <<MessageState_from_entity(new_msg)>> \o @]
         IN  [d EXCEPT !.selected_conv = <<updated_conv>>]
    ELSE d
\* lines 62-70
ApplyNewMessageClosure(d, new_msg) ==
    IF d.selected_conv # <<>>
    THEN LET updated_conv ==
                 [d.selected_conv[1] EXCEPT
                     !.messages = Append(@, MessageState_from_entity(new_msg))]
         IN  [d EXCEPT !.selected_conv = <<updated_conv>>]
    ELSE d

ApplyItem(d, item) ==
    CASE item.kind = "ConfigUpdated" -> ApplyConfigUpdated(d, item.val)
      [] item.kind = "config" -> ApplyConfigClosure(d, item.val)
      [] item.kind = "user" -> ApplyUserClosure(d, item.val)
      [] item.kind = "selected_conv" -> ApplyConvClosure(d, item.val)
      [] item.kind = "new_msg" -> ApplyNewMessageClosure(d, item.val)

Tasks == {"loop", "relay"}
Submit(sink, task, items) == [sink EXCEPT ![task] = @ \o items]

\* --------------------------------------------------------------- initially
Init ==
    /\ broker_receiver = <<>>
    /\ pc = "start"
    /\ cur = NoEvent
    /\ core = [relays_url |-> InitRelays, contacts |-> <<>>, connected |-> {},
               user |-> NoUser, subscription |-> "", convs |-> NoConvs]
    /\ senders = Producers
    /\ rec_convs_noti = <<>>
    /\ rec_status = [lagged |-> FALSE, closed |-> FALSE]
    /\ relay = "unspawned"
    /\ event_sink = [t \in Tasks |-> <<>>]
    /\ data = [config |-> ConfigState_new, user |-> UserState_new("", ""),
               selected_conv |-> <<>>]
    /\ sent = [p \in Producers |-> 0]
    /\ applied = <<>>
    /\ inflight = {}
    /\ trace = <<>>
    /\ last = [cmd |-> NoCmd, ok |-> TRUE]
    /\ handled = [dropped |-> {}, appended |-> {}]

\* ------------------------------------------------------------- producers
\* a producer sends a command through its clone of the channel's sender
RECURSIVE Sum(_, _)
Sum(f, S) == IF S = {} THEN 0 ELSE LET x == CHOOSE y \in S : TRUE IN f[x] + Sum(f, S \ {x})

Send(p, c) ==
    /\ p \in senders
    /\ Sum(sent, Producers) < MaxSend
    /\ broker_receiver' = Append(broker_receiver, [tag |-> <<p, sent[p] + 1>>, cmd |-> c])
    /\ sent' = [sent EXCEPT ![p] = @ + 1]
    /\ UNCHANGED <<pc, cur, core, rec_convs_noti, relay, event_sink, data,
                   applied, inflight, trace, last, handled, senders, rec_status>>

\* ----------------------------------------------------------- start_broker
\* lines 45-53: the core handle is created, the configuration loaded and sent
\* faulty variant: the broker starts without publishing the configuration
LoadInitialConfigSilent ==
    /\ pc = "start"
    /\ pc' = "spawn"
    /\ UNCHANGED <<broker_receiver, cur, core, rec_convs_noti, relay, event_sink, data,
                   sent, applied, inflight, trace, last, handled, senders, rec_status>>

LoadInitialConfig ==
    /\ pc = "start"
    /\ pc' = "spawn"
    /\ event_sink' = Submit(event_sink, "loop", <<ConfigUpdated(load_config(core))>>)
    /\ UNCHANGED <<broker_receiver, cur, core, rec_convs_noti, relay, data,
                   sent, applied, inflight, trace, last, handled, senders, rec_status>>

\* lines 55-74: subscribe to the notifications and spawn the relay task
SpawnRelay ==
    /\ pc = "spawn"
    /\ pc' = "recv"
    /\ relay' = "running"
    /\ UNCHANGED <<broker_receiver, cur, core, rec_convs_noti, event_sink, data,
                   sent, applied, inflight, trace, last, handled, senders, rec_status>>

\* faulty variant: the loop receives while an arm is still running (arms spawned as tasks)
RecvAnytime == pc \notin {"start", "spawn"}
\* line 76: the loop receives only at the top of the while
RecvReady == pc = "recv"
\* faulty variant: recv() yields the newest command of the channel
RecvIndexNewest(q) == Len(q)
\* line 76: recv() yields the oldest command of the channel
RecvIndex(q) == 1
RemoveAt(q, i) == SubSeq(q, 1, i - 1) \o SubSeq(q, i + 1, Len(q))

Recv ==
    /\ RecvReady
    /\ broker_receiver # <<>>
    /\ LET i == RecvIndex(broker_receiver)
           ev == broker_receiver[i]
       IN  /\ broker_receiver' = RemoveAt(broker_receiver, i)
           /\ cur' = ev
           /\ pc' = ev.cmd.type
           /\ applied' = Append(applied, ev.tag)
           /\ inflight' = inflight \cup {ev.tag}
    /\ trace' = <<>>
    /\ UNCHANGED <<core, rec_convs_noti, relay, event_sink, data, sent, last, handled, senders, rec_status>>

\* the arm is over: back to the top of the while
\* faulty variant: an arm whose core call failed breaks out of the loop
CompleteOrBreak(ok) ==
    /\ pc' = IF ok THEN "recv" ELSE "done"
    /\ cur' = NoEvent
    /\ inflight' = inflight \ {cur.tag}
    /\ last' = [cmd |-> cur.cmd, ok |-> ok]

Complete(ok) ==
    /\ pc' = "recv"
    /\ cur' = NoEvent
    /\ inflight' = inflight \ {cur.tag}
    /\ last' = [cmd |-> cur.cmd, ok |-> ok]

\* a stored message is announced to the subscribers of the notifications
Emit(q, m) ==
    IF relay # "running" THEN q
    ELSE IF Len(q) < NotiCap THEN Append(q, m) ELSE Append(Tail(q), m)

\* the receiver has lagged once a retained notification was overwritten
EmitStatus(q, st) ==
    IF relay = "running" /\ Len(q) >= NotiCap THEN [st EXCEPT !.lagged = TRUE] ELSE st

\* lines 78-80
SendMessageArm ==
    /\ pc = "SendMessage"
    /\ \E stored \in BOOLEAN :
          /\ stored => Cardinality(AllMsgs(core)) < MaxMsgs
          /\ LET m == NewMsg(core, cur.cmd.arg, cur.cmd.content)
             IN  /\ core' = IF stored THEN CoreStoreMessage(core, m) ELSE core
                 /\ rec_convs_noti' = IF stored THEN Emit(rec_convs_noti, m)
                                      ELSE rec_convs_noti
                 /\ rec_status' = IF stored THEN EmitStatus(rec_convs_noti, rec_status)
                                  ELSE rec_status
    /\ trace' = Append(trace, "send_msg_to_contact")
    /\ Complete(TRUE)
    /\ UNCHANGED <<broker_receiver, relay, event_sink, data, sent, applied, handled, senders>>

\* faulty variant: an absent conversation is published as an empty one
SetConversationSubmissionDefault(conv) ==
    IF conv # <<>> THEN <<ConvClosure(conv[1])>>
    ELSE <<ConvClosure([pk |-> "", messages |-> <<>>])>>
\* lines 82-86: what the arm submits for the conversation get_conv returned
SetConversationSubmission(conv) ==
    IF conv # <<>> THEN <<ConvClosure(conv[1])>> ELSE <<>>

\* lines 81-87
SetConversationArm ==
    /\ pc = "SetConversation"
    /\ LET conv == CoreGetConv(core, cur.cmd.arg)
       IN  /\ event_sink' = Submit(event_sink, "loop", SetConversationSubmission(conv))
           /\ Complete(conv # <<>>)
    /\ trace' = Append(trace, "get_conv")
    /\ UNCHANGED <<broker_receiver, core, rec_convs_noti, relay, data, sent, applied, handled, senders, rec_status>>

\* line 89
RestoreKeyPairArm ==
    /\ pc = "RestoreKeyPair"
    /\ core' = CoreImportUserSk(core, cur.cmd.arg)
    /\ trace' = Append(trace, "import_user_sk")
    /\ pc' = "subscribe"
    /\ UNCHANGED <<broker_receiver, cur, rec_convs_noti, relay, event_sink, data,
                   sent, applied, inflight, last, handled, senders, rec_status>>

\* faulty variant: the new key pair is published without resubscribing
GenerateNewKeyPairArmNoSubscribe ==
    /\ pc = "GenerateNewKeyPair"
    /\ \E sk \in SecretKeys : core' = CoreGenNewUserKeypair(core, sk)
    /\ trace' = Append(trace, "gen_new_user_keypair")
    /\ pc' = "update_user_state"
    /\ UNCHANGED <<broker_receiver, cur, rec_convs_noti, relay, event_sink, data,
                   sent, applied, inflight, last, handled, senders, rec_status>>

\* line 94
GenerateNewKeyPairArm ==
    /\ pc = "GenerateNewKeyPair"
    /\ \E sk \in SecretKeys : core' = CoreGenNewUserKeypair(core, sk)
    /\ trace' = Append(trace, "gen_new_user_keypair")
    /\ pc' = "subscribe"
    /\ UNCHANGED <<broker_receiver, cur, rec_convs_noti, relay, event_sink, data,
                   sent, applied, inflight, last, handled, senders, rec_status>>

\* lines 90 and 95: core_handle.subscribe().await
KeyPairSubscribe ==
    /\ pc = "subscribe"
    /\ core' = CoreSubscribe(core)
    /\ trace' = Append(trace, "subscribe")
    /\ pc' = "update_user_state"
    /\ UNCHANGED <<broker_receiver, cur, rec_convs_noti, relay, event_sink, data,
                   sent, applied, inflight, last, handled, senders, rec_status>>

\* lines 91 and 96, fn update_user_state
update_user_state ==
    /\ pc = "update_user_state"
    /\ event_sink' = Submit(event_sink, "loop", <<UserClosure(CoreGetUser(core))>>)
    /\ trace' = Append(trace, "update_user_state")
    /\ Complete(TRUE)
    /\ UNCHANGED <<broker_receiver, core, rec_convs_noti, relay, data, sent, applied, handled, senders, rec_status>>

\* async fn update_config_state: what it submits
update_config_state(c) == <<ConfigClosure(updated_config_state(c))>>

\* faulty variant: the refresh follows a rejected add_relay only
RelayAddedErr(ok) == ~ok
\* line 99: if let CoreTaskHandleEvent::RelayAdded(Ok(_))
RelayAddedOk(ok) == ok
\* faulty variant: the refresh is not gated on the result
RemovedRelayAny(ok) == TRUE
\* line 104: if let CoreTaskHandleEvent::RemovedRelay(Ok(_))
RemovedRelayOk(ok) == ok

\* lines 98-102
AddRelayArm ==
    /\ pc = "AddRelay"
    /\ \E ok \in BOOLEAN :
          /\ core' = CoreAddRelay(core, cur.cmd.arg, ok)
          /\ IF RelayAddedOk(ok)
             THEN /\ event_sink' = Submit(event_sink, "loop", update_config_state(core'))
                  /\ trace' = trace \o <<"add_relay", "update_config_state">>
             ELSE /\ event_sink' = event_sink
                  /\ trace' = Append(trace, "add_relay")
          /\ Complete(ok)
    /\ UNCHANGED <<broker_receiver, rec_convs_noti, relay, data, sent, applied, handled, senders, rec_status>>

\* faulty variant: the snapshot is built from the configuration read before remove_relay
RemoveRelayArmStale ==
    /\ pc = "RemoveRelay"
    /\ \E ok \in BOOLEAN :
          /\ core' = CoreRemoveRelay(core, cur.cmd.arg, ok)
          /\ IF RemovedRelayOk(ok)
             THEN /\ event_sink' = Submit(event_sink, "loop", update_config_state(core))
                  /\ trace' = trace \o <<"remove_relay", "update_config_state">>
             ELSE /\ event_sink' = event_sink
                  /\ trace' = Append(trace, "remove_relay")
          /\ Complete(ok)
    /\ UNCHANGED <<broker_receiver, rec_convs_noti, relay, data, sent, applied, handled, senders, rec_status>>

\* lines 103-109
RemoveRelayArm ==
    /\ pc = "RemoveRelay"
    /\ \E ok \in BOOLEAN :
          /\ core' = CoreRemoveRelay(core, cur.cmd.arg, ok)
          /\ IF RemovedRelayOk(ok)
             THEN /\ event_sink' = Submit(event_sink, "loop", update_config_state(core'))
                  /\ trace' = trace \o <<"remove_relay", "update_config_state">>
             ELSE /\ event_sink' = event_sink
                  /\ trace' = Append(trace, "remove_relay")
          /\ Complete(ok)
    /\ UNCHANGED <<broker_receiver, rec_convs_noti, relay, data, sent, applied, handled, senders, rec_status>>

\* faulty variant: connecting a relay also refreshes the configuration
ConnectRelayArmRefresh ==
    /\ pc = "ConnectRelay"
    /\ core' = CoreConnectRelay(core, cur.cmd.arg)
    /\ event_sink' = Submit(event_sink, "loop", update_config_state(core'))
    /\ trace' = Append(trace, "connect_relay")
    /\ Complete(TRUE)
    /\ UNCHANGED <<broker_receiver, rec_convs_noti, relay, data, sent, applied, handled,
                   senders, rec_status>>

\* lines 110-112
ConnectRelayArm ==
    /\ pc = "ConnectRelay"
    /\ core' = CoreConnectRelay(core, cur.cmd.arg)
    /\ trace' = Append(trace, "connect_relay")
    /\ Complete(TRUE)
    /\ UNCHANGED <<broker_receiver, rec_convs_noti, relay, event_sink, data, sent, applied, handled, senders, rec_status>>

\* lines 113-115
DisconnectRelayArm ==
    /\ pc = "DisconnectRelay"
    /\ core' = CoreDisconnectRelay(core, cur.cmd.arg)
    /\ trace' = Append(trace, "disconnect_relay")
    /\ Complete(TRUE)
    /\ UNCHANGED <<broker_receiver, rec_convs_noti, relay, event_sink, data, sent, applied, handled, senders, rec_status>>

\* lines 117-119
SubscribeInRelaysArm ==
    /\ pc = "SubscribeInRelays"
    /\ core' = CoreSubscribe(core)
    /\ trace' = Append(trace, "subscribe")
    /\ Complete(TRUE)
    /\ UNCHANGED <<broker_receiver, rec_convs_noti, relay, event_sink, data, sent, applied, handled, senders, rec_status>>

\* faulty variant: the refresh follows only an accepted add_contact
AddContactArmGated ==
    /\ pc = "AddContact"
    /\ \E ok \in BOOLEAN :
          /\ core' = CoreAddContact(core, cur.cmd.contact, ok)
          /\ Complete(ok)
          /\ event_sink' = IF ok THEN Submit(event_sink, "loop", update_config_state(core'))
                           ELSE event_sink
    /\ trace' = trace \o <<"add_contact", "update_config_state">>
    /\ UNCHANGED <<broker_receiver, rec_convs_noti, relay, data, sent, applied, handled,
                   senders, rec_status>>

\* lines 120-123
AddContactArm ==
    /\ pc = "AddContact"
    /\ \E ok \in BOOLEAN :
          /\ core' = CoreAddContact(core, cur.cmd.contact, ok)
          /\ Complete(ok)
    /\ event_sink' = Submit(event_sink, "loop", update_config_state(core'))
    /\ trace' = trace \o <<"add_contact", "update_config_state">>
    /\ UNCHANGED <<broker_receiver, rec_convs_noti, relay, data, sent, applied, handled, senders, rec_status>>

\* lines 124-127
RemoveContactArm ==
    /\ pc = "RemoveContact"
    /\ \E ok \in BOOLEAN :
          /\ core' = CoreRemoveContact(core, cur.cmd.contact, ok)
          /\ Complete(ok)
    /\ event_sink' = Submit(event_sink, "loop", update_config_state(core'))
    /\ trace' = trace \o <<"remove_contact", "update_config_state">>
    /\ UNCHANGED <<broker_receiver, rec_convs_noti, relay, data, sent, applied, handled, senders, rec_status>>

\* lines 128-130
LoadConfigsArm ==
    /\ pc = "LoadConfigs"
    /\ event_sink' = Submit(event_sink, "loop", update_config_state(core))
    /\ trace' = Append(trace, "update_config_state")
    /\ Complete(TRUE)
    /\ UNCHANGED <<broker_receiver, core, rec_convs_noti, relay, data, sent, applied, handled, senders, rec_status>>

\* ------------------------------------------------- the core's own activity
\* a message of a peer reaches the core, which stores and announces it
CoreReceiveMessage(peer) ==
    /\ pc # "start"
    /\ ~rec_status.closed
    /\ Cardinality(AllMsgs(core)) < MaxMsgs
    /\ \E content \in Contents :
          LET m == NewMsg(core, peer, content)
          IN  /\ core' = CoreStoreMessage(core, m)
              /\ rec_convs_noti' = Emit(rec_convs_noti, m)
              /\ rec_status' = EmitStatus(rec_convs_noti, rec_status)
    /\ UNCHANGED <<broker_receiver, pc, cur, relay, event_sink, data,
                   sent, applied, inflight, trace, last, handled, senders>>

\* the core handle is dropped when start_broker returns: the notification
\* sequence is then permanently exhausted
CoreShutdown ==
    /\ pc = "done"
    /\ ~rec_status.closed
    /\ rec_status' = [rec_status EXCEPT !.closed = TRUE]
    /\ UNCHANGED <<broker_receiver, senders, pc, cur, core, rec_convs_noti, relay, event_sink,
                   data, sent, applied, inflight, trace, last, handled>>

\* ------------------------------------------------- the notification relay
\* line 59: what recv() yields: "Lagged" once the receiver fell behind, else
\* the oldest notification, else "Closed" when the sequence is exhausted,
\* else nothing yet
RecvOutcome(q, st) ==
    IF st.lagged THEN "Lagged"
    ELSE IF q # <<>> THEN "Ok"
    ELSE IF st.closed THEN "Closed" ELSE "Pending"

\* faulty variant: the closure overtakes the ones the relay submitted before
RelaySubmitFront(sink, noti) ==
    [sink EXCEPT !["relay"] = <<NewMessageClosure(noti)>> \o @]

\* lines 61-70: the closure of one notification handed to the sink
RelaySubmit(sink, noti) == Submit(sink, "relay", <<NewMessageClosure(noti)>>)

\* lines 59-72: one notification received, its closure handed to the sink
RelayRecv ==
    /\ relay = "running"
    /\ RecvOutcome(rec_convs_noti, rec_status) = "Ok"
    /\ event_sink' = RelaySubmit(event_sink, Head(rec_convs_noti))
    /\ rec_convs_noti' = Tail(rec_convs_noti)
    /\ UNCHANGED <<broker_receiver, pc, cur, core, relay, data,
                   sent, applied, inflight, trace, last, handled, senders, rec_status>>

\* line 59: `while let Ok(..)` leaves the loop on every Err; the task ends
\* and its receiver is dropped with whatever it still retained
RelayEndsOn(outcome) == outcome \in {"Lagged", "Closed"}

RelayEnd ==
    /\ relay = "running"
    /\ RelayEndsOn(RecvOutcome(rec_convs_noti, rec_status))
    /\ relay' = "ended"
    /\ rec_convs_noti' = <<>>
    /\ UNCHANGED <<broker_receiver, senders, pc, cur, core, rec_status, event_sink, data,
                   sent, applied, inflight, trace, last, handled>>

\* --------------------------------------------- the end of the command loop
\* a producer drops its sender of the command channel
DropSender(p) ==
    /\ p \in senders
    /\ senders' = senders \ {p}
    /\ UNCHANGED <<broker_receiver, pc, cur, core, rec_convs_noti, rec_status, relay,
                   event_sink, data, sent, applied, inflight, trace, last, handled>>

\* line 76: recv() yields None once every sender is dropped and the channel
\* is drained
ChannelClosed == senders = {} /\ broker_receiver = <<>>

\* lines 76, 133: `while let Some(..)` fails and start_broker returns
LoopExit ==
    /\ pc = "recv"
    /\ ChannelClosed
    /\ pc' = "done"
    /\ UNCHANGED <<broker_receiver, senders, cur, core, rec_convs_noti, rec_status, relay,
                   event_sink, data, sent, applied, inflight, trace, last, handled>>

\* ----------------------------------------------------- the presentation
\* the presentation thread runs the oldest submission of one task
SinkApply(task) ==
    /\ event_sink[task] # <<>>
    /\ LET item == Head(event_sink[task])
       IN  /\ data' = ApplyItem(data, item)
           /\ handled' =
                 IF item.kind # "new_msg" THEN handled
                 ELSE IF data'.selected_conv # data.selected_conv
                      THEN [handled EXCEPT !.appended = @ \cup {item.val.id}]
                      ELSE [handled EXCEPT !.dropped = @ \cup {item.val.id}]
    /\ event_sink' = [event_sink EXCEPT ![task] = Tail(@)]
    /\ UNCHANGED <<broker_receiver, pc, cur, core, rec_convs_noti, relay,
                   sent, applied, inflight, trace, last, senders, rec_status>>

\* -------------------------------------------------------- specifications
\* steps every run of the broker takes, whatever the commands are
Startup == LoadInitialConfig \/ SpawnRelay

\* the whole broker: every producer may send every command
Next ==
    \/ \E p \in Producers, c \in BrokerEvent : Send(p, c)
    \/ Startup
    \/ Recv
    \/ SendMessageArm
    \/ SetConversationArm
    \/ RestoreKeyPairArm
    \/ GenerateNewKeyPairArm
    \/ KeyPairSubscribe
    \/ update_user_state
    \/ AddRelayArm
    \/ RemoveRelayArm
    \/ ConnectRelayArm
    \/ DisconnectRelayArm
    \/ SubscribeInRelaysArm
    \/ AddContactArm
    \/ RemoveContactArm
    \/ LoadConfigsArm
    \/ \E p \in Producers : DropSender(p)
    \/ LoopExit
    \/ CoreShutdown
    \/ \E peer \in Peers : CoreReceiveMessage(peer)
    \/ RelayRecv
    \/ RelayEnd
    \/ \E task \in Tasks : SinkApply(task)

Spec == Init /\ [][Next]_vars

\* The commands fall into three families that touch disjoint parts of the core
\* and of the AppState; each family is explored on its own.
ConfigEvents ==
    {c \in BrokerEvent :
        c.type \in {"AddRelay", "RemoveRelay", "AddContact", "RemoveContact", "LoadConfigs"}}
ConvEvents == {c \in BrokerEvent : c.type \in {"SetConversation", "SendMessage"}}
KeyEvents ==
    {c \in BrokerEvent :
        c.type \in {"RestoreKeyPair", "GenerateNewKeyPair", "SubscribeInRelays"}}

\* configuration commands, sent by every producer: data.config
NextConfig ==
    \/ \E p \in Producers, c \in ConfigEvents : Send(p, c)
    \/ Startup
    \/ Recv
    \/ AddRelayArm
    \/ RemoveRelayArm
    \/ AddContactArm
    \/ RemoveContactArm
    \/ LoadConfigsArm
    \/ \E task \in Tasks : SinkApply(task)

SpecConfig == Init /\ [][NextConfig]_vars

\* conversation commands, sent by one producer, and the notifications:
\* data.selected_conv
NextConv ==
    \/ \E c \in ConvEvents : Send("ui", c)
    \/ Startup
    \/ Recv
    \/ SendMessageArm
    \/ SetConversationArm
    \/ \E peer \in Peers : CoreReceiveMessage(peer)
    \/ RelayRecv
    \/ RelayEnd
    \/ \E task \in Tasks : SinkApply(task)

SpecConv == Init /\ [][NextConv]_vars

\* key commands, sent by one producer: data.user and the core's subscription
NextKeys ==
    \/ \E c \in KeyEvents : Send("ui", c)
    \/ Startup
    \/ Recv
    \/ RestoreKeyPairArm
    \/ GenerateNewKeyPairArm
    \/ KeyPairSubscribe
    \/ update_user_state
    \/ SubscribeInRelaysArm
    \/ \E task \in Tasks : SinkApply(task)

SpecKeys == Init /\ [][NextKeys]_vars

\* the commands whose arms submit nothing
SilentEvents ==
    {c \in BrokerEvent :
        c.type \in {"ConnectRelay", "DisconnectRelay", "SubscribeInRelays", "SendMessage"}}

\* the silent commands, sent by one producer, with the relay carrying the
\* notification of a sent message
NextSilent ==
    \/ \E c \in SilentEvents : Send("ui", c)
    \/ Startup
    \/ Recv
    \/ ConnectRelayArm
    \/ DisconnectRelayArm
    \/ SubscribeInRelaysArm
    \/ SendMessageArm
    \/ RelayRecv
    \/ RelayEnd
    \/ \E task \in Tasks : SinkApply(task)

SpecSilent == Init /\ [][NextSilent]_vars

\* commands that can fail, for the lifetime of the two loops
LifeEvents == {c \in BrokerEvent : c.type \in {"AddRelay", "SetConversation"}}

\* the lifetime of the command loop: one producer sends, both drop their
\* senders, the loop drains the channel and returns
NextLife ==
    \/ \E c \in LifeEvents : Send("ui", c)
    \/ \E p \in Producers : DropSender(p)
    \/ Startup
    \/ Recv
    \/ AddRelayArm
    \/ SetConversationArm
    \/ LoopExit
    \/ \E task \in Tasks : SinkApply(task)

SpecLife == Init /\ [][NextLife]_vars

\* the lifetime of the relay: the core emits notifications while the
\* command loop runs and shuts down when start_broker has returned
NextRelay ==
    \/ \E p \in Producers : DropSender(p)
    \/ Startup
    \/ LoopExit
    \/ CoreShutdown
    \/ \E peer \in Peers : CoreReceiveMessage(peer)
    \/ RelayRecv
    \/ RelayEnd
    \/ \E task \in Tasks : SinkApply(task)

SpecRelay == Init /\ [][NextRelay]_vars

\* ------------------------------------------------------------ properties
Last(q) == q[Len(q)]
\* the sequence numbers of producer p's commands in a sequence of tags, in order
RECURSIVE SeqsOf(_, _)
SeqsOf(tags, p) ==
    IF tags = <<>> THEN <<>>
    ELSE IF Head(tags)[1] = p THEN <<Head(tags)[2]>> \o SeqsOf(Tail(tags), p)
    ELSE SeqsOf(Tail(tags), p)
\* the tags of the commands waiting in the channel, oldest first
QueuedTags == [i \in 1..Len(broker_receiver) |-> broker_receiver[i].tag]
\* the step runs the oldest submission of `task`
Applies(task) == event_sink[task] # <<>> /\ event_sink'[task] = Tail(event_sink[task])
\* the step ends the arm of a command of one of `types`
Completes(types) == pc \in types /\ pc' = "recv"

\* C1: for every producer, the commands of that producer the loop has received,
\* followed by those still in the channel, are exactly its submissions 1..sent[p]
\* in submission order: every command is received once, none is lost or
\* duplicated, and the loop's single order respects each producer's order.
C1_SubmissionOrder ==
    \A p \in Producers :
        SeqsOf(applied, p) \o SeqsOf(QueuedTags, p)
            = [i \in 1..sent[p] |-> i]

\* two producers had a command each, and the loop has received both
C1_Witness ==
    /\ Len(applied) = 2
    /\ applied[1][1] # applied[2][1]
    /\ pc = "recv"

\* C2: at most one command is in flight, and whenever the loop is at the top of
\* the while, where it receives, no command is in flight.
C2_OneCommandAtATime ==
    /\ Cardinality(inflight) <= 1
    /\ pc \in {"start", "spawn", "recv"} => inflight = {}
    /\ inflight # {} => inflight = {cur.tag}

\* a command is being processed while another one waits in the channel
C2_Witness ==
    /\ Cardinality(inflight) = 1
    /\ broker_receiver # <<>>
    /\ pc = "RemoveRelay"

\* C3: the step in which the loop ends an AddRelay or RemoveRelay the core has
\* rejected submits nothing to the sink and leaves the AppState as it was.
C3_RejectedRelayChangeIsSilent ==
    [][(Completes({"AddRelay", "RemoveRelay"}) /\ ~last'.ok)
          => (event_sink' = event_sink /\ data' = data)]_vars

\* a RemoveRelay was rejected while the presentation held the loaded config
C3_Witness ==
    /\ pc = "recv"
    /\ last.cmd.type = "RemoveRelay"
    /\ ~last.ok
    /\ data.config.relays_url = core.relays_url
    /\ event_sink["loop"] = <<>>

\* C4: when LoadConfigs runs right after an AddRelay(url) the core accepted, it
\* submits one config snapshot, whose relay list holds url exactly once.
C4_AddedRelayListedOnce ==
    [][(Completes({"LoadConfigs"}) /\ last.cmd.type = "AddRelay" /\ last.ok)
          => /\ Len(event_sink'["loop"]) = Len(event_sink["loop"]) + 1
             /\ Last(event_sink'["loop"]).kind = "config"
             /\ Count(Last(event_sink'["loop"]).val.relays_url, last.cmd.arg) = 1]_vars

\* AddRelay(r2) was accepted, LoadConfigs followed, and both snapshots wait
C4_Witness ==
    /\ pc = "recv"
    /\ last.cmd.type = "LoadConfigs"
    /\ Len(event_sink["loop"]) = 3
    /\ event_sink["loop"][2].val.relays_url = <<"wss://r1", "wss://r2">>
    /\ event_sink["loop"][3].val.relays_url = <<"wss://r1", "wss://r2">>

\* C5: when RemoveRelay(url) is accepted right after an accepted AddRelay(url),
\* it submits one config snapshot whose relay list does not hold url; and a
\* config snapshot the sink runs becomes the config the presentation holds.
C5_RemovedRelayNotListed ==
    [][/\ (Completes({"RemoveRelay"}) /\ last'.ok
             /\ last.cmd.type = "AddRelay" /\ last.ok /\ last.cmd.arg = cur.cmd.arg)
          => /\ Len(event_sink'["loop"]) = Len(event_sink["loop"]) + 1
             /\ Last(event_sink'["loop"]).kind = "config"
             /\ cur.cmd.arg \notin Range(Last(event_sink'["loop"]).val.relays_url)
       /\ (Applies("loop") /\ Head(event_sink["loop"]).kind = "config")
          => data'.config = Head(event_sink["loop"]).val]_vars

\* AddRelay(r2) then RemoveRelay(r2), both accepted, and the presentation holds
\* the snapshot of the removal
C5_Witness ==
    /\ pc = "recv"
    /\ last.cmd.type = "RemoveRelay"
    /\ last.cmd.arg = "wss://r2"
    /\ last.ok
    /\ Len(applied) = 2
    /\ event_sink["loop"] = <<>>
    /\ data.config.relays_url = <<"wss://r1">>
    /\ core.relays_url = <<"wss://r1">>

\* the notifications emitted and not yet run by the presentation
PendingNoti(q, sink) == Range(q) \cup {sink["relay"][i].val : i \in 1..Len(sink["relay"])}
ProjectedHistory(c, pk) ==
    [i \in 1..Len(c.convs[pk]) |-> MessageState_from_entity(c.convs[pk][i])]

\* C6: when the sink runs the closure of a new-message notification whose
\* message belongs to a peer other than the selected one, selected_conv is left
\* as it was.
C6_AppendOnlyForSelectedPeer ==
    [][(/\ Applies("relay")
        /\ data.selected_conv # <<>>
        /\ Head(event_sink["relay"]).val.peer # data.selected_conv[1].pk)
          => data'.selected_conv = data.selected_conv]_vars

\* C7: a new-message closure run while no conversation is selected changes no
\* field of the AppState; the notification it dropped is never pending again
\* and never counts among the appended ones, whatever command comes later.
C7_DroppedWhenNoneSelected ==
    [][/\ (Applies("relay") /\ data.selected_conv = <<>>) => data' = data
       /\ handled.dropped \subseteq handled'.dropped
       /\ handled'.dropped \cap handled'.appended = {}
       /\ \A m \in PendingNoti(rec_convs_noti', event_sink') :
              m.id \notin handled'.dropped]_vars

\* a notification was dropped, then SetConversation selected a conversation,
\* which holds the core's history and nothing more
C7_Witness ==
    /\ handled.dropped # {}
    /\ pc = "recv"
    /\ last.cmd.type = "SetConversation"
    /\ event_sink = [t \in Tasks |-> <<>>]
    /\ rec_convs_noti = <<>>
    /\ data.selected_conv # <<>>
    /\ data.selected_conv[1].messages = ProjectedHistory(core, data.selected_conv[1].pk)

\* C8: a new-message closure run for a message of the selected peer lengthens
\* the selected conversation's messages by one: the former messages are a
\* prefix of the new ones and the last one is the projection of the message.
C8_AppendsExactlyOne ==
    [][(/\ Applies("relay")
        /\ data.selected_conv # <<>>
        /\ Head(event_sink["relay"]).val.peer = data.selected_conv[1].pk)
          => LET old == data.selected_conv[1].messages
                 new == data'.selected_conv[1].messages
             IN  /\ Len(data'.selected_conv) = 1
                 /\ data'.selected_conv[1].pk = data.selected_conv[1].pk
                 /\ Len(new) = Len(old) + 1
                 /\ SubSeq(new, 1, Len(old)) = old
                 /\ new[Len(new)] = MessageState_from_entity(Head(event_sink["relay"]).val)
                 /\ data'.config = data.config
                 /\ data'.user = data.user]_vars

\* the selected conversation ends with a message of its own peer that a
\* notification appended after the messages that were there
C8_Witness ==
    /\ data.selected_conv # <<>>
    /\ Len(data.selected_conv[1].messages) >= 2
    /\ \E m \in Range(core.convs[data.selected_conv[1].pk]) :
          /\ m.id \in handled.appended
          /\ Last(data.selected_conv[1].messages) = MessageState_from_entity(m)

\* C9: the step in which the loop ends a SetConversation(pk) for a pk the core
\* has no conversation for submits nothing and leaves the AppState as it was.
C9_UnknownPeerKeepsSelection ==
    [][(Completes({"SetConversation"}) /\ CoreGetConv(core, cur.cmd.arg) = <<>>)
          => (event_sink' = event_sink /\ data' = data)]_vars

\* peer A is selected, and a SetConversation for a peer without conversation
\* has been processed since
C9_Witness ==
    /\ pc = "recv"
    /\ last.cmd.type = "SetConversation"
    /\ ~last.ok
    /\ event_sink["loop"] = <<>>
    /\ data.selected_conv # <<>>
    /\ data.selected_conv[1].pk = "A"
    /\ last.cmd.arg = "B"
    /\ core.convs["B"] = <<>>

KeyPairDone == pc = "recv" /\ last.cmd.type = "GenerateNewKeyPair"

\* C10 as stated: a GenerateNewKeyPair makes one UserSnapshot publication and
\* then one resubscription call.
C10_PublicationThenSubscribe ==
    KeyPairDone => trace = <<"gen_new_user_keypair", "update_user_state", "subscribe">>

\* C10 as amended: a GenerateNewKeyPair makes one resubscription call and then
\* one UserSnapshot publication; when the snapshot is about to be submitted the
\* core is subscribed for the new key.
C10_SubscribeThenPublication ==
    /\ KeyPairDone => trace = <<"gen_new_user_keypair", "subscribe", "update_user_state">>
    /\ (pc = "update_user_state" /\ cur.cmd.type = "GenerateNewKeyPair")
          => (core.subscription = core.user.pk /\ trace[Len(trace)] = "subscribe")

\* a GenerateNewKeyPair is over and the presentation holds the new key
C10_Witness ==
    /\ KeyPairDone
    /\ event_sink["loop"] = <<>>
    /\ data.user = UserState_new(core.user.sk, core.user.pk)
    /\ core.subscription = core.user.pk

\* nothing has been submitted to the sink
NoSubmission == [t \in Tasks |-> <<>>]
\* the ConfigUpdated notifications waiting in the sink
ConfigUpdatedIn(sink) ==
    Cardinality({<<t, i>> \in Tasks \X (1..(MaxSend + MaxMsgs + 1)) :
                    i <= Len(sink[t]) /\ sink[t][i].kind = "ConfigUpdated"})

\* C11: until the broker has published the initial configuration nothing has
\* been submitted to the sink, the relay is not spawned and no command has
\* been received; the step that leaves the start submits exactly the
\* ConfigUpdated of the configuration the core holds then, with the relay still
\* unspawned and no command received; no later step submits a ConfigUpdated.
C11_InitialConfigFirst ==
    [][/\ pc = "start"
          => (event_sink = NoSubmission /\ relay = "unspawned" /\ applied = <<>>)
       /\ (pc = "start" /\ pc' # "start")
          => /\ event_sink' = [NoSubmission EXCEPT
                                  !["loop"] = <<ConfigUpdated(
                                       [relays_url |-> core.relays_url,
                                        contacts |-> ContactProjection(core.contacts)])>>]
             /\ relay' = "unspawned"
             /\ applied' = <<>>
       /\ pc # "start" => ConfigUpdatedIn(event_sink') <= ConfigUpdatedIn(event_sink)]_vars

\* the presentation holds the initial configuration, after which the relay
\* submitted a closure and the loop received a command
C11_Witness ==
    /\ pc = "recv"
    /\ Len(applied) >= 1
    /\ data.config = load_config(core)
    /\ data.config.relays_url = InitRelays
    /\ handled.dropped # {}

\* C12: the command loop has returned only if every producer has dropped its
\* sender and the channel is drained, every command ever sent having been
\* received and none being in flight; the loop returns from the top of the
\* while only, never from an arm, whatever the outcome of the command.
C12_LoopEndsOnlyOnClosure ==
    [][/\ pc' = "done"
          => /\ senders' = {}
             /\ broker_receiver' = <<>>
             /\ Len(applied') = Sum(sent', Producers)
             /\ inflight' = {}
       /\ (pc # "done" /\ pc' = "done") => (pc = "recv" /\ ChannelClosed)
       /\ pc \in {c.type : c \in BrokerEvent} => pc' # "done"]_vars

\* the loop has returned after two commands, the last of which failed
C12_Witness ==
    /\ pc = "done"
    /\ Len(applied) = 2
    /\ ~last.ok
    /\ senders = {}

\* C13: the relay has ended only if the notification sequence is permanently
\* exhausted.
C13_RelayEndsOnlyOnExhaustion ==
    relay = "ended" => rec_status.closed

\* the snapshot of the configuration the core `c` holds
ConfigSnapshotOf(c) ==
    [relays_url |-> c.relays_url, contacts |-> ContactProjection(c.contacts)]

\* C14: the step in which the loop ends an AddContact or a RemoveContact,
\* accepted or rejected by the core, submits exactly one closure, which carries
\* the snapshot of the configuration the core holds after the operation.
C14_ContactRefreshUnconditional ==
    [][Completes({"AddContact", "RemoveContact"})
          => /\ event_sink' = [event_sink EXCEPT
                                  !["loop"] = Append(@, ConfigClosure(ConfigSnapshotOf(core')))]
             /\ data' = data]_vars

\* a rejected RemoveContact has left the snapshot of the unchanged
\* configuration in the sink, as the command before it did
C14_Witness ==
    /\ pc = "recv"
    /\ Len(applied) = 2
    /\ last.cmd.type = "RemoveContact"
    /\ ~last.ok
    /\ core.contacts = <<>>
    /\ Len(event_sink["loop"]) = 3
    /\ event_sink["loop"][3] = ConfigClosure(ConfigSnapshotOf(core))

\* the ids of the notifications whose closure the presentation has run
HandledIds == handled.dropped \cup handled.appended
\* the ids of the notifications of the closures waiting in `q`
ClosureIds(q) == {q[i].val.id : i \in 1..Len(q)}

\* C15: the relay submits the closure of the oldest notification it has not
\* yet received, behind every closure it submitted before, all of which carry
\* earlier notifications; the presentation runs a closure only after those of
\* all earlier notifications and before those of all later ones; and a closure
\* that appends puts its message behind everything the conversation held, so
\* of two appended messages the one emitted first comes first.
C15_NotificationsInEmissionOrder ==
    [][/\ (relay = "running" /\ Len(event_sink'["relay"]) > Len(event_sink["relay"]))
          => /\ rec_convs_noti # <<>>
             /\ event_sink'["relay"]
                   = Append(event_sink["relay"], NewMessageClosure(Head(rec_convs_noti)))
             /\ \A j \in HandledIds \cup ClosureIds(event_sink["relay"]) :
                    j < Head(rec_convs_noti).id
             /\ \A m \in Range(rec_convs_noti') : m.id > Head(rec_convs_noti).id
       /\ Applies("relay")
          => LET n == Head(event_sink["relay"]).val
             IN  /\ \A j \in HandledIds : j < n.id
                 /\ \A j \in ClosureIds(event_sink'["relay"]) : j > n.id
                 /\ \A m \in Range(rec_convs_noti) : m.id > n.id
                 /\ data'.selected_conv # data.selected_conv
                    => data'.selected_conv[1].messages
                          = Append(data.selected_conv[1].messages,
                                   MessageState_from_entity(n))]_vars

\* two notifications were emitted one after the other and both were appended
\* to the selected conversation, the earlier one first
C15_Witness ==
    /\ handled.appended = {1, 2}
    /\ data.selected_conv # <<>>
    /\ Len(data.selected_conv[1].messages) >= 2
    /\ LET msgs == data.selected_conv[1].messages
       IN  /\ msgs[Len(msgs) - 1].source_id = 1
           /\ msgs[Len(msgs)].source_id = 2

\* the commands that only call the core
SilentTypes == {"ConnectRelay", "DisconnectRelay", "SubscribeInRelays", "SendMessage"}

\* C16: the arm of a ConnectRelay, DisconnectRelay, SubscribeInRelays or
\* SendMessage makes its one core call, submits nothing to the sink and leaves
\* config, user and selected_conv as they were.
C16_SilentCommands ==
    [][Completes(SilentTypes)
          => /\ event_sink' = event_sink
             /\ data' = data
             /\ trace' = Append(trace,
                    CASE pc = "ConnectRelay" -> "connect_relay"
                      [] pc = "DisconnectRelay" -> "disconnect_relay"
                      [] pc = "SubscribeInRelays" -> "subscribe"
                      [] pc = "SendMessage" -> "send_msg_to_contact")
             /\ Len(trace') = 1]_vars

\* a relay was connected and a message was sent and stored, and all the sink
\* has ever held from the loop is the initial configuration
C16_Witness ==
    /\ pc = "recv"
    /\ Len(applied) = 2
    /\ last.cmd.type = "SendMessage"
    /\ core.connected # {}
    /\ AllMsgs(core) # {}
    /\ event_sink["loop"] = <<ConfigUpdated(load_config(core))>>
    /\ data.selected_conv = <<>>

\* C17: the arm of a SetConversation(pk) for a pk the core has a conversation
\* for submits one closure carrying that conversation as the core returned it;
\* when the presentation runs the closure, selected_conv becomes the projection
\* of that conversation, pk and every message in the core's order, with nothing
\* of the previous selection, and config and user stay as they were.
C17_SelectionReplacedWholesale ==
    [][/\ (Completes({"SetConversation"}) /\ core.convs[cur.cmd.arg] # <<>>)
          => /\ event_sink'["loop"]
                   = Append(event_sink["loop"],
                            ConvClosure([pk |-> cur.cmd.arg,
                                         messages |-> core.convs[cur.cmd.arg]]))
             /\ event_sink'["relay"] = event_sink["relay"]
             /\ data' = data
       /\ (Applies("loop") /\ Head(event_sink["loop"]).kind = "selected_conv")
          => LET conv == Head(event_sink["loop"]).val
             IN  data' = [data EXCEPT !.selected_conv =
                            <<[pk |-> conv.pk,
                               messages |->
                                  [i \in 1..Len(conv.messages) |->
                                      [source_id |-> conv.messages[i].id,
                                       content |-> conv.messages[i].content]]]>>]]_vars

\* a notification had been appended to the selected conversation; then
\* SetConversation("B") replaced the selection, which is now the core's history
\* for B and nothing else
C17_Witness ==
    /\ pc = "recv"
    /\ Len(applied) = 2
    /\ last.cmd.type = "SetConversation"
    /\ last.cmd.arg = "B"
    /\ last.ok
    /\ handled.appended # {}
    /\ event_sink["loop"] = <<>>
    /\ data.selected_conv = <<[pk |-> "B", messages |-> ProjectedHistory(core, "B")]>>

\* the channel is empty, no command is in flight and the presentation has run
\* everything that was submitted
Quiescent ==
    /\ pc = "recv"
    /\ broker_receiver = <<>>
    /\ inflight = {}
    /\ event_sink = NoSubmission

\* C18: whenever the broker is quiescent the configuration the presentation
\* holds is the snapshot of the configuration the core holds, whichever
\* commands were accepted and whichever were rejected.
C18_ConfigEventuallyConsistent ==
    Quiescent => data.config = ConfigSnapshotOf(core)

\* an accepted AddRelay and then a rejected command have been processed, and
\* the presentation has caught up
C18_Witness ==
    /\ Quiescent
    /\ Len(applied) = 2
    /\ ~last.ok
    /\ core.relays_url = <<"wss://r1", "wss://r2">>
    /\ data.config.relays_url = <<"wss://r1", "wss://r2">>

\* C19: no message of the core appears more than once in the selected
\* conversation.
C19_NoDuplicateMessage ==
    data.selected_conv # <<>>
       => LET msgs == data.selected_conv[1].messages
          IN  \A i, j \in 1..Len(msgs) :
                 i # j => msgs[i].source_id # msgs[j].source_id

\* C20: once the broker is quiescent and the relay, which never lagged, has
\* relayed every notification, every message the core holds for the selected
\* peer is in the selected conversation.
C20_NoLostMessage ==
    (/\ Quiescent
     /\ relay = "running"
     /\ ~rec_status.lagged
     /\ rec_convs_noti = <<>>
     /\ data.selected_conv # <<>>)
       => \A m \in Range(core.convs[data.selected_conv[1].pk]) :
             MessageState_from_entity(m) \in Range(data.selected_conv[1].messages)

====
